---- MODULE Spec2Model ----
(***************************************************************************)
(* The Bedrock proxy gateway of docs/draft/2025-03-26_bed-rock-proxy/       *)
(* bedrock-lambda-proxy.py as a state machine: one inbound event handled by *)
(* lambda_handler, with the token table, the Bedrock runtime and the log    *)
(* sink as collaborators, and the live-mode generator driven by a consumer. *)
(*                                                                          *)
(* Strings are sequences of atoms.  A text is a sequence of one-character   *)
(* strings; an Authorization header is a sequence of atoms in which the     *)
(* atom "Bearer " is the only place the seven characters "Bearer " occur;   *)
(* a model id is a sequence of atoms in which a family name occurs only as  *)
(* a whole atom.                                                            *)
(***************************************************************************)
EXTENDS Integers, Sequences, FiniteSets, TLC

\* Longest backend chunk sequence explored.
MaxChunks == 3

\* Most CustomerManager operations begun in one behaviour.
MaxOps == 3

\* Longest text given to estimate_tokens on its own.
MaxTextLen == 10

-----------------------------------------------------------------------------
\* Texts

WordChars == {"a", "b"}
SpaceChars == {" "}

Empty == <<>>

\* len(re.findall(r'\w+', text)): the maximal runs of word characters.
WordRuns(text) ==
  Cardinality({i \in 1..Len(text) :
                 /\ text[i] \in WordChars
                 /\ (i = 1 \/ text[i-1] \notin WordChars)})

\* len(re.findall(r'[^\w\s]', text)): single non-word, non-space characters.
PunctuationCount(text) ==
  Cardinality({i \in 1..Len(text) : text[i] \notin (WordChars \cup SpaceChars)})

\* str.lower() on one atom of a model id.
LowerAtom(a) ==
  CASE a = "Claude" -> "claude"
    [] a = "LLAMA"  -> "llama"
    [] OTHER        -> a

\* 'family' in model_id.lower()
InLower(family, model) ==
  \E i \in 1..Len(model) : LowerAtom(model[i]) = family

\* A variant of lines 21-26 that tests 'llama' before 'claude'.
estimate_tokens_LlamaFirst(text, model) ==
  IF text = Empty THEN 0
  ELSE LET estimated == WordRuns(text) + PunctuationCount(text)
       IN  IF InLower("llama", model) THEN (estimated * 11) \div 10
           ELSE IF InLower("claude", model) THEN (estimated * 9) \div 10
           ELSE estimated

\* int(n * 0.9) and int(n * 1.1) for the small non-negative n of the model:
\* the doubles 0.9 and 1.1 lie above the decimals, so the product never
\* falls below an exact integer value.
estimate_tokens(text, model) ==
  IF text = Empty THEN 0
  ELSE LET estimated == WordRuns(text) + PunctuationCount(text)
       IN  IF InLower("claude", model) THEN (estimated * 9) \div 10
           ELSE IF InLower("llama", model) THEN (estimated * 11) \div 10
           ELSE estimated

\* A call estimate_tokens(text, model) and the value it returned.
Estimate(text, model) ==
  [text |-> text, model_id |-> model, tokens |-> estimate_tokens(text, model)]

NoEstimate == Estimate(Empty, <<>>)

-----------------------------------------------------------------------------
\* JSON values the handler inspects

\* A value found under 'content' / 'completion': a string, a list of parts,
\* a (non-zero) number or null.
StrVal(t)   == [kind |-> "str",  text |-> t,     parts |-> <<>>]
ListVal(ps) == [kind |-> "list", text |-> Empty, parts |-> ps]
NumVal      == [kind |-> "num",  text |-> Empty, parts |-> <<>>]
NullVal     == [kind |-> "null", text |-> Empty, parts |-> <<>>]

\* A part of a content list: an object with a type and a text, or (ptype
\* "string") an element that is no object; tkind tells whether the part's
\* 'text' is a string, a number, or missing.
TextPart(t)  == [ptype |-> "text",   tkind |-> "str",    text |-> t]
ImagePart    == [ptype |-> "image",  tkind |-> "absent", text |-> Empty]
NumTextPart  == [ptype |-> "text",   tkind |-> "num",    text |-> Empty]
BareTextPart == [ptype |-> "text",   tkind |-> "absent", text |-> Empty]
StringPart   == [ptype |-> "string", tkind |-> "absent", text |-> Empty]

\* A JSON object of the backend (a stream chunk or a response body), as far
\* as the handler reads it.
Obj(hasCompletion, completion, hasContent, content) ==
  [hasCompletion |-> hasCompletion, completion |-> completion,
   hasContent |-> hasContent, content |-> content]

NoObj == Obj(FALSE, NullVal, FALSE, NullVal)

\* The outcome of a piece of Python: a value, or an exception with str(e).
Value(t)  == [raised |-> FALSE, text |-> t,     error |-> ""]
Raise(msg) == [raised |-> TRUE,  text |-> Empty, error |-> msg]

\* for item in content: if item.get('type') == 'text': text += item.get('text', '')
RECURSIVE PartsText(_, _)
PartsText(parts, acc) ==
  IF parts = <<>> THEN Value(acc)
  ELSE LET item == Head(parts)
       IN  IF item.ptype = "string"
             THEN Raise("'str' object has no attribute 'get'")
           ELSE IF item.ptype # "text"
             THEN PartsText(Tail(parts), acc)
           ELSE IF item.tkind = "num"
             THEN Raise("can only concatenate str (not \"int\") to str")
           ELSE PartsText(Tail(parts), acc \o item.text)

\* if text_content: output_text += text_content, for a value that was
\* assigned to text_content without a type test.
AppendUntyped(v) ==
  CASE v.kind = "str"  -> Value(v.text)
    [] v.kind = "null" -> Value(Empty)
    [] v.kind = "num"  -> Raise("can only concatenate str (not \"int\") to str")
    [] OTHER           -> IF v.parts = <<>> THEN Value(Empty)
                          ELSE Raise("can only concatenate str (not \"list\") to str")

\* A variant of lines 210-220 that looks at 'content' before 'completion'.
ExtractLive_ContentFirst(chunk) ==
  IF chunk.hasContent
    THEN IF chunk.content.kind = "list"
           THEN PartsText(chunk.content.parts, Empty)
           ELSE AppendUntyped(chunk.content)
  ELSE IF chunk.hasCompletion THEN AppendUntyped(chunk.completion)
  ELSE Value(Empty)

\* Lines 210-220: the text of one stream chunk in the live-mode generator.
ExtractLive(chunk) ==
  IF chunk.hasCompletion THEN AppendUntyped(chunk.completion)
  ELSE IF chunk.hasContent
    THEN IF chunk.content.kind = "list"
           THEN PartsText(chunk.content.parts, Empty)
           ELSE AppendUntyped(chunk.content)
  ELSE Value(Empty)

\* Lines 267-277: the text of one stream chunk in the buffered (API Gateway)
\* branch, a second copy of the same statements.
ExtractBuffered(chunk) ==
  IF chunk.hasCompletion THEN AppendUntyped(chunk.completion)
  ELSE IF chunk.hasContent
    THEN IF chunk.content.kind = "list"
           THEN PartsText(chunk.content.parts, Empty)
           ELSE AppendUntyped(chunk.content)
  ELSE Value(Empty)

\* Lines 142-149: the output text of a synchronous response body.
SyncOutputText(body) ==
  IF ~body.hasContent THEN Value(Empty)
  ELSE IF body.content.kind = "list" THEN PartsText(body.content.parts, Empty)
  ELSE IF body.content.kind = "str" THEN Value(body.content.text)
  ELSE Value(Empty)

\* Lines 111-119: the input text of request_body['messages']; each message
\* is given by the value of its 'content'.
RECURSIVE MessagesText(_, _)
MessagesText(msgs, acc) ==
  IF msgs = <<>> THEN Value(acc)
  ELSE LET content == Head(msgs)
       IN  IF content.kind = "list"
             THEN LET r == PartsText(content.parts, acc)
                  IN  IF r.raised THEN r ELSE MessagesText(Tail(msgs), r.text)
           ELSE IF content.kind = "str"
             THEN MessagesText(Tail(msgs), acc \o content.text)
           ELSE MessagesText(Tail(msgs), acc)

-----------------------------------------------------------------------------
\* The token table (bedrock_tokens): token -> record.  Customer ids are the
\* non-empty ids create_customer issues.

InitialStore ==
  (<<"T">> :> [customer_id |-> "c1", status |-> "active"]) @@
  (<<"D">> :> [customer_id |-> "c1", status |-> "deprecated"]) @@
  (<<"R">> :> [customer_id |-> "c2", status |-> "revoked"])

\* The customer table (bedrock_customers) that goes with InitialStore;
\* <<>> stands for a missing previous_token.
InitialCustomers ==
  ("c1" :> [current_token |-> <<"T">>, previous_token |-> <<"D">>]) @@
  ("c2" :> [current_token |-> <<"R">>, previous_token |-> <<>>])

\* The processes that run CustomerManager operations.
Procs == {"p1", "p2"}

\* A process that runs no operation, and the frame of one that does: the
\* operation, where it stands, and its locals.
IdleFrame ==
  [op |-> "none", pc |-> "idle", customer_id |-> "", token |-> <<>>,
   current_token |-> <<>>, found |-> FALSE]

-----------------------------------------------------------------------------
\* Inbound events

\* Values of the Authorization header.
AuthValues ==
  { <<>>, <<"Basic ", "T">>, <<"bearer ", "T">>, <<"Bearer ">>,
    <<"Bearer ", "T">>, <<"Bearer ", "D">>, <<"Bearer ", "R">>,
    <<"Bearer ", "X">>, <<"Bearer ", "Bearer ", "T">> }

\* authorization.startswith('Bearer ')
StartsWithBearer(auth) == Len(auth) >= 1 /\ auth[1] = "Bearer "

\* authorization.replace('Bearer ', ''): every occurrence is removed.
ExtractToken(auth) == SelectSeq(auth, LAMBDA x : x # "Bearer ")

\* The headers of an event: the key missing, null, or a map with or
\* without an Authorization entry.
HeaderValues ==
  { [kind |-> "absent", hasAuth |-> FALSE, auth |-> <<>>],
    [kind |-> "null",   hasAuth |-> FALSE, auth |-> <<>>],
    [kind |-> "map",    hasAuth |-> FALSE, auth |-> <<>>] }
  \cup { [kind |-> "map", hasAuth |-> TRUE, auth |-> a] : a \in AuthValues }

ModelIdValues == { <<>>, <<"m1">>, <<"Claude", "v2">>, <<"LLAMA">> }

\* The 'stream' value: a JSON boolean, or a non-empty string such as "no".
StreamValues == { "true", "false", "string" }

Truthy(streamValue) == streamValue \in {"true", "string"}

NoMessages == [iterable |-> TRUE, msgs |-> <<>>]

MessagesValues ==
  { [iterable |-> TRUE,
     msgs |-> << StrVal(<<"a", " ", "a", ".">>),
                 ListVal(<< TextPart(<<"b">>), ImagePart >>) >>],
    [iterable |-> TRUE, msgs |-> << ListVal(<< StringPart >>) >>],
    [iterable |-> FALSE, msgs |-> <<>>] }

\* Top-level key orders of a body object.
KeyOrders ==
  { <<>>, <<"modelId">>, <<"stream", "max_tokens">>, <<"modelId", "stream">>,
    <<"modelId", "messages", "max_tokens">>,
    <<"max_tokens", "stream", "messages", "modelId">> }

Has(keys, k) == \E i \in 1..Len(keys) : keys[i] = k

\* A body: the 'body' key missing, null, text that is no JSON, a JSON array,
\* or a JSON object with its keys in order and the values of the keys the
\* handler reads.
RawBody(kind) ==
  [kind |-> kind, keys |-> <<>>, modelId |-> <<>>, stream |-> "false",
   messages |-> NoMessages]

BodyValues ==
  { RawBody(k) : k \in {"absent", "null", "text", "array"} }
  \cup { [kind |-> "object", keys |-> ks,
          modelId |-> IF Has(ks, "modelId") THEN m ELSE <<>>,
          stream |-> IF Has(ks, "stream") THEN s ELSE "false",
          messages |-> IF Has(ks, "messages") THEN ms ELSE NoMessages] :
         ks \in KeyOrders, m \in ModelIdValues, s \in StreamValues,
         ms \in MessagesValues }

Events ==
  [httpMethod : {"POST", "OPTIONS", "GET"}, headers : HeaderValues,
   body : BodyValues, apiGateway : BOOLEAN]

-----------------------------------------------------------------------------
\* Backend behaviour

\* Stream chunks and response bodies the backend may send.
ChunkValues ==
  { Obj(TRUE, StrVal(<<"a">>), FALSE, NullVal),
    Obj(TRUE, StrVal(Empty), TRUE, StrVal(<<"b">>)),
    Obj(FALSE, NullVal, TRUE, StrVal(<<"b", " ", ".">>)),
    Obj(FALSE, NullVal, TRUE,
        ListVal(<< TextPart(<<"a">>), ImagePart, TextPart(<<"b">>) >>)),
    Obj(FALSE, NullVal, FALSE, NullVal),
    Obj(TRUE, NumVal, FALSE, NullVal),
    Obj(FALSE, NullVal, TRUE, NumVal),
    Obj(FALSE, NullVal, TRUE, ListVal(<< TextPart(<<"a">>), StringPart >>)) }

\* str(e) of the errors the token table's get_item can raise.
StoreFaults == { "ProvisionedThroughputExceededException: rate exceeded" }

\* str(e) of the error a failing write to the log sink raises.
SinkFault == "[Errno 32] Broken pipe"

\* str(e) of a fault of the backend.
BackendFaults == { "ThrottlingException: Too many requests" }

-----------------------------------------------------------------------------
\* State

VARIABLES
  event,          \* the inbound event
  store,          \* the token table
  pc,             \* where lambda_handler stands
  customer_id,    \* "" for None
  model_id,       \* <<>> for None or ''
  use_streaming,  \* the truth value of the popped 'stream'
  input_tokens,
  request_body,   \* the parsed body, after the pops
  response,       \* what lambda_handler returned
  records,        \* the usage records printed to the log sink
  warnings,       \* the other lines printed for the operator
  storeReads,     \* the tokens looked up with get_item
  backendCalls,   \* the calls made on bedrock_runtime
  backendFault,   \* str(e) of the backend's fault in this call, "" if none
  gen,            \* the state of generate_streaming_response
  atYield,        \* the generator is suspended at a yield
  chunks,         \* the chunks received from the backend stream, or the one
                  \* response body of invoke_model
  frames,         \* the frames the generator has yielded (live mode)
  output_text,    \* the generator's output_text
  sink,           \* the log sink: "ok", "faulty" (its writes may fail) or
                  \* "faulted" (a write of a usage record has failed)
  estimate,       \* the last call of estimate_tokens made on its own: its
                  \* arguments and the value returned
  first,          \* what an earlier call of the handler gave, when this call
                  \* is the second of a pair
  customers,      \* the customer table: customer_id -> record
  ops,            \* the CustomerManager operation each process is running
  opsBegun,       \* how many operations have been begun
  issued          \* token -> the customer a token record was first written for

vars ==
  << event, store, pc, customer_id, model_id, use_streaming, input_tokens,
     request_body, response, records, warnings, storeReads, backendCalls,
     backendFault, gen, atYield, chunks, frames, output_text, sink,
     estimate, first, customers, ops, opsBegun, issued >>

handlerVars ==
  << customer_id, model_id, use_streaming, input_tokens, request_body >>

genVars == << gen, atYield, chunks, frames, output_text >>

\* What no step of lambda_handler touches.
manageVars == << customers, ops, opsBegun, issued >>

sideVars == << estimate, first, manageVars >>

\* Line 53: context.aws_request_id
request_id == "req-1"

\* Lines 30-35: the CORS headers of every response the handler returns.
headers == "cors+json"

NoResponse ==
  [kind |-> "none", status |-> 0, headers |-> "", error |-> "",
   message |-> "", obj |-> NoObj, items |-> <<>>]

\* {'statusCode': status, 'headers': headers, 'body': json.dumps({'error': msg})}
ErrorResponse(status, msg) ==
  [kind |-> "json", status |-> status, headers |-> headers, error |-> msg,
   message |-> "", obj |-> NoObj, items |-> <<>>]

\* A variant of lines 39-43 that answers the preflight with 204 and no body.
PreflightResponse_NoContent ==
  [kind |-> "json", status |-> 204, headers |-> headers, error |-> "",
   message |-> "", obj |-> NoObj, items |-> <<>>]

\* Lines 39-43
PreflightResponse ==
  [kind |-> "json", status |-> 200, headers |-> headers, error |-> "",
   message |-> "CORS preflight response", obj |-> NoObj, items |-> <<>>]

\* Lines 172-176: the backend's response body, re-serialised.
BackendResponse(body) ==
  [kind |-> "json", status |-> 200, headers |-> headers, error |-> "",
   message |-> "body", obj |-> body, items |-> <<>>]

\* Lines 306-310: the collected chunks.
CollectedResponse(collected) ==
  [kind |-> "json", status |-> 200, headers |-> headers, error |-> "",
   message |-> "chunks", obj |-> NoObj, items |-> collected]

\* Line 249: the generator object.
GeneratorResponse ==
  [kind |-> "generator", status |-> 0, headers |-> "", error |-> "",
   message |-> "", obj |-> NoObj, items |-> <<>>]

\* Frames of the live stream and entries of the buffered collection.
HeadFrame      == [type |-> "head", text |-> Empty]
DataFrame(t)   == [type |-> "data", text |-> t]
EndFrame       == [type |-> "end",  text |-> Empty]
DoneEntry      == [type |-> "done", text |-> Empty]

\* Lines 158-168, 235-245, 292-302: a usage log entry.
UsageRecord(type, cust, model, inTok, outTok) ==
  [event_type |-> type, customer_id |-> cust, request_id |-> request_id,
   model_id |-> model, input_tokens |-> inTok, output_tokens |-> outTok,
   token_count |-> inTok + outTok, error |-> ""]

\* Lines 318-326: the error log entry.
ErrorRecord(cust, model, msg) ==
  [event_type |-> "bedrock_error", customer_id |-> cust,
   request_id |-> request_id, model_id |-> model, input_tokens |-> 0,
   output_tokens |-> 0, token_count |-> 0, error |-> msg]

\* No operation is running on the tables that go with InitialStore.
ManageAtRest ==
  /\ customers = InitialCustomers
  /\ ops = [p \in Procs |-> IdleFrame]
  /\ opsBegun = 0
  /\ issued = [t \in DOMAIN InitialStore |-> InitialStore[t].customer_id]

\* No earlier call.
NoFirst ==
  [taken |-> FALSE, pc |-> "", response |-> NoResponse, records |-> <<>>,
   frames |-> <<>>, backendCalls |-> <<>>, warnings |-> <<>>, chunks |-> <<>>,
   backendFault |-> "", gen |-> "none", storeFaulted |-> FALSE]

Init ==
  /\ event \in Events
  /\ store = InitialStore
  /\ pc = "Received"
  /\ customer_id = ""
  /\ model_id = <<>>
  /\ use_streaming = FALSE
  /\ input_tokens = 0
  /\ request_body = RawBody("absent")
  /\ response = NoResponse
  /\ records = <<>>
  /\ warnings = <<>>
  /\ storeReads = <<>>
  /\ backendCalls = <<>>
  /\ backendFault = ""
  /\ gen = "none"
  /\ atYield = FALSE
  /\ chunks = <<>>
  /\ frames = <<>>
  /\ output_text = Empty
  /\ sink = "ok"
  /\ estimate = NoEstimate
  /\ first = NoFirst
  /\ ManageAtRest

\* What the caller of lambda_handler gets when an exception with
\* str(e) = msg leaves it.
Raised(msg) == [NoResponse EXCEPT !.kind = "raised", !.error = msg]

\* A variant of lines 312-335 that answers with a fixed message instead of
\* str(e).
Except_Generic(msg, cust, model) ==
  \/ /\ records' = IF cust # "" THEN Append(records, ErrorRecord(cust, model, msg))
                   ELSE records
     /\ response' = ErrorResponse(500, "Internal server error")
     /\ pc' = "Returned"
     /\ sink' = IF msg = SinkFault THEN "faulted" ELSE sink
  \/ /\ cust # ""
     /\ sink # "ok"
     /\ sink' = "faulted"
     /\ response' = Raised(SinkFault)
     /\ pc' = "Escaped"
     /\ UNCHANGED records

\* Lines 312-335: the handler's except clause, for an exception with
\* str(e) = msg raised while cust and model are the handler's locals.  The
\* print of line 327 is inside the clause and guarded by nothing: when the
\* sink fails on it the exception leaves the handler.
Except(msg, cust, model) ==
  \/ /\ records' = IF cust # "" THEN Append(records, ErrorRecord(cust, model, msg))
                   ELSE records
     /\ response' = ErrorResponse(500, msg)
     /\ pc' = "Returned"
     /\ sink' = IF msg = SinkFault THEN "faulted" ELSE sink
  \/ /\ cust # ""
     /\ sink # "ok"
     /\ sink' = "faulted"
     /\ response' = Raised(SinkFault)
     /\ pc' = "Escaped"
     /\ UNCHANGED records

\* Lines 37-43: the preflight short cut.
Preflight ==
  /\ pc = "Received"
  /\ event.httpMethod = "OPTIONS"
  /\ response' = PreflightResponse
  /\ pc' = "Returned"
  /\ UNCHANGED << sideVars, event, store, sink, handlerVars, records, warnings, storeReads,
                  backendCalls, backendFault, genVars >>

\* A variant of line 74 that accepts active records only.
AcceptedStatuses_ActiveOnly == {"active"}

\* Line 74: the statuses of a token record that pass validation.
AcceptedStatuses == {"active", "deprecated"}

\* A line printed for the operator: its fixed text and the detail
\* interpolated into it.
Warning(text, detail) == [text |-> text, detail |-> detail]

\* A variant of lines 86-92 that answers with str(e) of the lookup error.
StoreFaultResponse_Detail(detail) == ErrorResponse(500, detail)

\* Lines 86-92: the answer to a lookup that raised; str(e) goes to the
\* operator's log only (line 87).
StoreFaultResponse(detail) == ErrorResponse(500, "Error authenticating request")

\* Lines 45-92: reading the Authorization header and looking the token up.
\* storeFault: str(e) of the error get_item raises, "" when it returns.
CredentialCheck ==
  /\ pc = "Received"
  /\ event.httpMethod # "OPTIONS"
  /\ IF event.headers.kind = "null"
       \* line 47, outside the try: None has no attribute 'get'
       THEN /\ pc' = "Escaped"
            /\ response' = Raised("'NoneType' object has no attribute 'get'")
            /\ UNCHANGED << customer_id, storeReads, warnings >>
     ELSE IF ~event.headers.hasAuth
             \/ event.headers.auth = <<>>
             \/ ~StartsWithBearer(event.headers.auth)
       THEN /\ pc' = "Returned"
            /\ response' = ErrorResponse(401,
                 "Authorization header missing or invalid format. Use Bearer token.")
            /\ UNCHANGED << customer_id, storeReads, warnings >>
     ELSE LET token == ExtractToken(event.headers.auth)
          IN  /\ storeReads' = Append(storeReads, token)
              /\ \E storeFault \in StoreFaults \cup {""} :
                   IF storeFault # ""
                     THEN /\ pc' = "Returned"
                          /\ response' = StoreFaultResponse(storeFault)
                          /\ warnings' = Append(warnings,
                               Warning("Error looking up token", storeFault))
                          /\ UNCHANGED customer_id
                   ELSE IF token \notin DOMAIN store
                           \/ store[token].status \notin AcceptedStatuses
                     THEN /\ pc' = "Returned"
                          /\ response' = ErrorResponse(401, "Invalid or expired token")
                          /\ UNCHANGED << customer_id, warnings >>
                   ELSE /\ customer_id' = store[token].customer_id
                        /\ warnings' = IF store[token].status = "deprecated"
                                         THEN Append(warnings,
                                           Warning("deprecated token", token))
                                         ELSE warnings
                        /\ pc' = "Authenticated"
                        /\ UNCHANGED response
  /\ UNCHANGED << sideVars, event, store, sink, model_id, use_streaming, input_tokens,
                  request_body, records, backendCalls, backendFault, genVars >>

\* json.loads(event.get('body', '{}')): the parsed object, when there is one.
ParsedBody(body) ==
  IF body.kind = "absent" THEN [body EXCEPT !.kind = "object"] ELSE body

\* str(e) of the exception lines 95-98 raise for a body that is no object.
BodyError(body) ==
  CASE body.kind = "null"  ->
         "the JSON object must be str, bytes or bytearray, not NoneType"
    [] body.kind = "text"  -> "Expecting value: line 1 column 1 (char 0)"
    [] body.kind = "array" -> "pop expected at most 1 argument, got 2"
    [] OTHER               -> ""

\* request_body.pop('modelId', None): the object left behind.
PopModelId(obj) ==
  [obj EXCEPT !.keys = SelectSeq(obj.keys, LAMBDA k : k # "modelId"),
              !.modelId = <<>>]

\* A variant of line 108 that reads the flag with get() and leaves it in
\* the object.
PopStream_Keep(obj) == obj

\* request_body.pop('stream', False): the object left behind.
PopStream(obj) ==
  [obj EXCEPT !.keys = SelectSeq(obj.keys, LAMBDA k : k # "stream"),
              !.stream = "false"]

\* A variant of line 100 that tests "model_id is None" and so lets an empty
\* modelId through.
NotModelId_NoneOnly(obj) == ~Has(obj.keys, "modelId")

\* Line 100: not model_id, for the value popped from obj.
NotModelId(obj) == ~Has(obj.keys, "modelId") \/ obj.modelId = <<>>

\* Lines 110-119: the input text, or the exception the loops raise.
InputText(obj) ==
  IF ~Has(obj.keys, "messages") THEN Value(Empty)
  ELSE IF ~obj.messages.iterable THEN Raise("'int' object is not iterable")
  ELSE MessagesText(obj.messages.msgs, Empty)

\* Lines 94-126: parsing the body, popping the control fields, estimating
\* the input tokens and serialising the rest as the backend payload.
Normalize ==
  /\ pc = "Authenticated"
  /\ IF BodyError(event.body) # ""
       THEN /\ Except(BodyError(event.body), customer_id, <<>>)
            /\ UNCHANGED << model_id, use_streaming, input_tokens, request_body >>
     ELSE LET parsed    == ParsedBody(event.body)
              popped    == PopModelId(parsed)
              streamVal == popped.stream
              rest      == PopStream(popped)
              text      == InputText(rest)
          IN  IF NotModelId(parsed)
                THEN /\ model_id' = <<>>
                     /\ request_body' = popped
                     /\ response' = ErrorResponse(400, "modelId is required")
                     /\ pc' = "Returned"
                     /\ UNCHANGED << use_streaming, input_tokens, records, sink >>
              ELSE /\ model_id' = parsed.modelId
                   /\ use_streaming' = Truthy(streamVal)
                   /\ request_body' = rest
                   /\ IF text.raised
                        THEN /\ Except(text.error, customer_id, parsed.modelId)
                             /\ UNCHANGED input_tokens
                      ELSE /\ input_tokens' = estimate_tokens(text.text, parsed.modelId)
                           /\ pc' = "Normalized"
                           /\ UNCHANGED << response, records, sink >>
  /\ UNCHANGED << sideVars, event, store, customer_id, warnings, storeReads, backendCalls,
                  backendFault, genVars >>

\* A call on bedrock_runtime: the operation, modelId and body=payload.
BackendCall(op) ==
  [op |-> op, modelId |-> model_id, body |-> request_body]

\* Lines 128-176: the synchronous path.
InvokeSync ==
  /\ pc = "Normalized"
  /\ ~use_streaming
  /\ backendCalls' = Append(backendCalls, BackendCall("invoke_model"))
  /\ \/ \E msg \in BackendFaults :
          /\ backendFault' = msg
          /\ Except(msg, customer_id, model_id)
          /\ UNCHANGED chunks
     \/ \E body \in ChunkValues :
          LET out == SyncOutputText(body)
          IN  /\ UNCHANGED backendFault
              /\ chunks' = <<body>>
              /\ IF out.raised
                   THEN Except(out.error, customer_id, model_id)
                 ELSE \/ /\ records' = Append(records,
                              UsageRecord("bedrock_invoke", customer_id, model_id,
                                input_tokens, estimate_tokens(out.text, model_id)))
                         /\ response' = BackendResponse(body)
                         /\ pc' = "Returned"
                         /\ UNCHANGED sink
                      \* line 170: the print fails, inside the try
                      \/ /\ sink # "ok"
                         /\ Except(SinkFault, customer_id, model_id)
  /\ UNCHANGED << sideVars, event, store, handlerVars, warnings, storeReads, gen,
                  atYield, frames, output_text >>

\* The chunk sequences the backend may stream.
ChunkSeqs == UNION { [1..n -> ChunkValues] : n \in 0..MaxChunks }

\* Lines 253-282: the loop of the buffered branch over the chunks cs, from
\* the entries collected and the output text so far.
RECURSIVE BufferedLoop(_, _, _)
BufferedLoop(cs, collected, text) ==
  IF cs = <<>>
    THEN [raised |-> FALSE, error |-> "", collected |-> collected, text |-> text]
  ELSE LET r == ExtractBuffered(Head(cs))
       IN  IF r.raised
             THEN [raised |-> TRUE, error |-> r.error, collected |-> collected,
                   text |-> text]
           ELSE IF r.text # Empty
             THEN BufferedLoop(Tail(cs), Append(collected, DataFrame(r.text)),
                               text \o r.text)
           ELSE BufferedLoop(Tail(cs), collected, text)

\* Lines 251-310: the streaming path behind API Gateway.  The backend streams
\* the chunks cs and then ends, or faults with str(e) = ending; a chunk the
\* loop raises on is the last one read.  seqs: the chunk sequences the
\* backend may stream.
StreamBufferedFrom(seqs) ==
  /\ pc = "Normalized"
  /\ use_streaming
  /\ event.apiGateway
  /\ backendCalls' =
       Append(backendCalls, BackendCall("invoke_model_with_response_stream"))
  /\ \E cs \in seqs, ending \in {"end"} \cup BackendFaults :
       LET loop == BufferedLoop(cs, <<>>, Empty)
       IN  /\ \A k \in 1..(Len(cs) - 1) : ~ExtractBuffered(cs[k]).raised
           /\ loop.raised => ending = "end"
           /\ chunks' = cs
           /\ IF loop.raised
                THEN /\ Except(loop.error, customer_id, model_id)
                     /\ UNCHANGED backendFault
              ELSE IF ending # "end"
                THEN /\ Except(ending, customer_id, model_id)
                     /\ backendFault' = ending
              ELSE /\ UNCHANGED backendFault
                   /\ \/ /\ records' = Append(records,
                              UsageRecord("bedrock_stream", customer_id, model_id,
                                input_tokens, estimate_tokens(loop.text, model_id)))
                         /\ response' =
                              CollectedResponse(Append(loop.collected, DoneEntry))
                         /\ pc' = "Returned"
                         /\ UNCHANGED sink
                      \* line 304: the print fails, inside the try
                      \/ /\ sink # "ok"
                         /\ Except(SinkFault, customer_id, model_id)
  /\ UNCHANGED << sideVars, event, store, handlerVars, warnings, storeReads, gen, atYield,
                  frames, output_text >>

StreamBuffered == StreamBufferedFrom(ChunkSeqs)

\* Lines 180-249: the streaming path of a function URL: the handler returns
\* the generator, none of whose statements has run yet.
ReturnGenerator ==
  /\ pc = "Normalized"
  /\ use_streaming
  /\ ~event.apiGateway
  /\ response' = GeneratorResponse
  /\ pc' = "Returned"
  /\ gen' = "created"
  /\ UNCHANGED << sideVars, event, store, sink, handlerVars, records, warnings, storeReads,
                  backendCalls, backendFault, atYield, chunks, frames,
                  output_text >>

\* Lines 193-196: the consumer's first next(): the status and headers.
GenStart ==
  /\ gen = "created"
  /\ frames' = Append(frames, HeadFrame)
  /\ gen' = "head"
  /\ atYield' = TRUE
  /\ UNCHANGED << sideVars, event, store, sink, pc, handlerVars, response, records, warnings,
                  storeReads, backendCalls, backendFault, chunks, output_text >>

\* Lines 198-204: resumed after the head, the generator opens the backend
\* stream; a fault of the call leaves the generator as an exception.
GenOpen ==
  /\ gen = "head"
  /\ backendCalls' =
       Append(backendCalls, BackendCall("invoke_model_with_response_stream"))
  /\ atYield' = FALSE
  /\ \/ /\ gen' = "streaming"
        /\ UNCHANGED backendFault
     \/ \E msg \in BackendFaults :
          /\ backendFault' = msg
          /\ gen' = "raised"
  /\ UNCHANGED << sideVars, event, store, sink, pc, handlerVars, response, records, warnings,
                  storeReads, chunks, frames, output_text >>

\* Lines 207-225: one more chunk arrives and is processed.
GenChunk ==
  /\ gen = "streaming"
  /\ Len(chunks) < MaxChunks
  /\ \E chunk \in ChunkValues :
       LET r == ExtractLive(chunk)
       IN  /\ chunks' = Append(chunks, chunk)
           /\ IF r.raised
                THEN /\ gen' = "raised"
                     /\ atYield' = FALSE
                     /\ UNCHANGED << frames, output_text >>
              ELSE IF r.text # Empty
                THEN /\ output_text' = output_text \o r.text
                     /\ frames' = Append(frames, DataFrame(r.text))
                     /\ atYield' = TRUE
                     /\ UNCHANGED gen
              ELSE /\ atYield' = FALSE
                   /\ UNCHANGED << gen, frames, output_text >>
  /\ UNCHANGED << sideVars, event, store, sink, pc, handlerVars, response, records, warnings,
                  storeReads, backendCalls, backendFault >>

\* Line 207: the backend stream faults instead of giving the next chunk.
GenBackendFault ==
  /\ gen = "streaming"
  /\ \E msg \in BackendFaults : backendFault' = msg
  /\ gen' = "raised"
  /\ atYield' = FALSE
  /\ UNCHANGED << sideVars, event, store, sink, pc, handlerVars, response, records, warnings,
                  storeReads, backendCalls, chunks, frames, output_text >>

\* Lines 227-228: the backend stream ends; the END frame.
GenEnd ==
  /\ gen = "streaming"
  /\ frames' = Append(frames, EndFrame)
  /\ gen' = "end"
  /\ atYield' = TRUE
  /\ UNCHANGED << sideVars, event, store, sink, pc, handlerVars, response, records, warnings,
                  storeReads, backendCalls, backendFault, chunks, output_text >>

\* Lines 230-247: resumed after the END frame, the generator logs the usage
\* and finishes.
GenFinish ==
  /\ gen = "end"
  /\ \/ /\ records' = Append(records,
            UsageRecord("bedrock_stream", customer_id, model_id, input_tokens,
                        estimate_tokens(output_text, model_id)))
        /\ gen' = "exhausted"
        /\ UNCHANGED sink
     \* line 247: the print fails, and nothing in the generator catches it
     \/ /\ sink # "ok"
        /\ sink' = "faulted"
        /\ gen' = "raised"
        /\ UNCHANGED records
  /\ atYield' = FALSE
  /\ UNCHANGED << sideVars, event, store, pc, handlerVars, response, warnings, storeReads,
                  backendCalls, backendFault, chunks, frames, output_text >>

\* The consumer stops iterating while the generator is suspended at a
\* yield: the generator is closed where it stands, and no statement after
\* that yield runs.
Disconnect ==
  /\ gen \in {"head", "streaming", "end"}
  /\ atYield
  /\ gen' = "closed"
  /\ atYield' = FALSE
  /\ UNCHANGED << sideVars, event, store, sink, pc, handlerVars, response, records, warnings,
                  storeReads, backendCalls, backendFault, chunks, frames,
                  output_text >>

Next ==
  \/ Preflight
  \/ CredentialCheck
  \/ Normalize
  \/ InvokeSync
  \/ StreamBuffered
  \/ ReturnGenerator
  \/ GenStart
  \/ GenOpen
  \/ GenChunk
  \/ GenBackendFault
  \/ GenEnd
  \/ GenFinish
  \/ Disconnect

Spec == Init /\ [][Next]_vars

\* The same call with a log sink whose writes may fail.
InitSinkFault ==
  /\ event \in Events
  /\ store = InitialStore
  /\ pc = "Received"
  /\ customer_id = ""
  /\ model_id = <<>>
  /\ use_streaming = FALSE
  /\ input_tokens = 0
  /\ request_body = RawBody("absent")
  /\ response = NoResponse
  /\ records = <<>>
  /\ warnings = <<>>
  /\ storeReads = <<>>
  /\ backendCalls = <<>>
  /\ backendFault = ""
  /\ gen = "none"
  /\ atYield = FALSE
  /\ chunks = <<>>
  /\ frames = <<>>
  /\ output_text = Empty
  /\ sink = "faulty"
  /\ estimate = NoEstimate
  /\ first = NoFirst
  /\ ManageAtRest

SpecSinkFault == InitSinkFault /\ [][Next]_vars

-----------------------------------------------------------------------------
\* estimate_tokens on its own

\* The characters of the texts: a word character, a space, a punctuation
\* mark.
EstimateChars == {"a", " ", "."}

\* The model ids: of no family, of one family in either letter case, of both.
EstimateModels ==
  { <<>>, <<"m1">>, <<"claude">>, <<"Claude", "v2">>, <<"llama">>, <<"LLAMA">>,
    <<"llama", "Claude">> }

\* The event of a call that never reaches the handler's body.
IdleEvent ==
  [httpMethod |-> "OPTIONS",
   headers |-> [kind |-> "absent", hasAuth |-> FALSE, auth |-> <<>>],
   body |-> RawBody("absent"),
   apiGateway |-> FALSE]

InitEstimate ==
  /\ event = IdleEvent
  /\ store = InitialStore
  /\ pc = "Received"
  /\ customer_id = ""
  /\ model_id = <<>>
  /\ use_streaming = FALSE
  /\ input_tokens = 0
  /\ request_body = RawBody("absent")
  /\ response = NoResponse
  /\ records = <<>>
  /\ warnings = <<>>
  /\ storeReads = <<>>
  /\ backendCalls = <<>>
  /\ backendFault = ""
  /\ gen = "none"
  /\ atYield = FALSE
  /\ chunks = <<>>
  /\ frames = <<>>
  /\ output_text = Empty
  /\ sink = "ok"
  /\ \E model \in EstimateModels : estimate = Estimate(Empty, model)
  /\ first = NoFirst
  /\ ManageAtRest

\* Lines 13-26: estimate_tokens is called with the text one character
\* longer, for the same model id.
EstimateCall ==
  /\ Len(estimate.text) < MaxTextLen
  /\ \E c \in EstimateChars :
       estimate' = Estimate(Append(estimate.text, c), estimate.model_id)
  /\ UNCHANGED << event, store, pc, handlerVars, response, records, warnings,
                  storeReads, backendCalls, backendFault, genVars, sink, first,
                  manageVars >>

NextEstimate == EstimateCall

SpecEstimate == InitEstimate /\ [][NextEstimate]_vars

-----------------------------------------------------------------------------
\* Vocabulary of the properties

\* The call has reached its terminal point: the handler has returned or
\* raised, and a generator it returned has finished, raised or been closed.
Terminal ==
  /\ pc \in {"Returned", "Escaped"}
  /\ gen \in {"none", "exhausted", "raised", "closed"}

\* get_item raised during this call.
StoreFaulted ==
  \E i \in 1..Len(warnings) : warnings[i].text = "Error looking up token"

\* The bearer token a header presents: what follows the leading "Bearer ".
PresentedToken(auth) == Tail(auth)

\* The event carries an Authorization header that starts with "Bearer ".
HasBearer ==
  /\ event.headers.kind = "map"
  /\ event.headers.hasAuth
  /\ StartsWithBearer(event.headers.auth)

\* The body parses to an object (a missing 'body' key reads as '{}').
BodyIsObject == event.body.kind \in {"object", "absent"}

ControlKeys == {"modelId", "stream"}

RECURSIVE ConcatTexts(_)
ConcatTexts(fs) ==
  IF fs = <<>> THEN Empty ELSE Head(fs).text \o ConcatTexts(Tail(fs))

DataFrames(fs) == SelectSeq(fs, LAMBDA f : f.type = "data")

LiveMode == response.kind = "generator"

-----------------------------------------------------------------------------
\* C1: once credential validation has resolved a customer_id, a non-OPTIONS
\* call has emitted exactly one usage record when it reaches its terminal
\* point, whatever the outcome (the consumer iterating the live stream to
\* its end).
C1_ExactlyOneRecord ==
  (Terminal /\ gen # "closed" /\ event.httpMethod # "OPTIONS" /\ customer_id # "")
    => Len(records) = 1

\* C2: a request whose bearer token has no record in the token store, or a
\* record whose status is neither active nor deprecated, is rejected with
\* 401 'Invalid or expired token', with no backend call and no usage record
\* (the lookup itself not failing).
C2_UnknownTokenRejected ==
  ( /\ pc # "Received"
    /\ event.httpMethod # "OPTIONS"
    /\ HasBearer
    /\ ~StoreFaulted
    /\ LET token == PresentedToken(event.headers.auth)
       IN  \/ token \notin DOMAIN store
           \/ store[token].status \notin {"active", "deprecated"} )
    => /\ pc = "Returned"
       /\ response = ErrorResponse(401, "Invalid or expired token")
       /\ backendCalls = <<>>
       /\ records = <<>>

\* C3: a non-OPTIONS request whose Authorization header is absent or does
\* not start with 'Bearer ' is answered 401 with the fixed message, with no
\* token-store lookup, no backend call and no usage record.
C3_MissingAuthRejected ==
  ( /\ pc # "Received"
    /\ event.httpMethod # "OPTIONS"
    /\ ~HasBearer )
    => /\ pc = "Returned"
       /\ response = ErrorResponse(401,
            "Authorization header missing or invalid format. Use Bearer token.")
       /\ storeReads = <<>>
       /\ backendCalls = <<>>
       /\ records = <<>>

\* C4: an authenticated request whose body object has no modelId, or an
\* empty one, is answered 400 'modelId is required' and neither backend
\* operation is called.
C4_MissingModelId ==
  ( /\ customer_id # ""
    /\ pc # "Authenticated"
    /\ BodyIsObject
    /\ (~Has(event.body.keys, "modelId") \/ event.body.modelId = <<>>) )
    => /\ pc = "Returned"
       /\ response = ErrorResponse(400, "modelId is required")
       /\ backendCalls = <<>>

\* C4's case: an authenticated request with "modelId": "" has been answered.
C4_Witness ==
  /\ customer_id # ""
  /\ pc = "Returned"
  /\ Has(event.body.keys, "modelId")
  /\ event.body.modelId = <<>>
  /\ Has(event.body.keys, "stream")
  /\ response.status = 400

\* C5: an authenticated request whose body is no well-formed object (no
\* JSON, JSON that is no object, no body) is answered 400 with an error
\* body, not 5xx, and no backend call is made.
C5_MalformedPayloadIs400 ==
  ( /\ customer_id # ""
    /\ pc # "Authenticated"
    /\ event.body.kind \in {"absent", "null", "text", "array"} )
    => /\ pc = "Returned"
       /\ response.kind = "json"
       /\ response.status = 400
       /\ response.error # ""
       /\ backendCalls = <<>>

\* C6: the payload of every backend call is the inbound body object without
\* the top-level keys modelId and stream: neither control key is in it, and
\* every other key is there, in its place, with its value.
C6_PayloadIsBodyMinusControl ==
  \A i \in 1..Len(backendCalls) :
    LET sent == backendCalls[i].body
    IN  /\ \A k \in ControlKeys : ~Has(sent.keys, k)
        /\ sent.keys = SelectSeq(event.body.keys, LAMBDA k : k \notin ControlKeys)
        /\ sent.messages = event.body.messages
        /\ sent.modelId = <<>>
        /\ sent.stream = "false"

\* C6's case: a backend call was made for a body that held both control
\* keys between other keys.
C6_Witness ==
  /\ Len(backendCalls) = 1
  /\ event.body.keys = <<"max_tokens", "stream", "messages", "modelId">>
  /\ backendCalls[1].body.keys = <<"max_tokens", "messages">>

\* What the buffered branch returns as 'content' entries for the chunks cs:
\* the collected entries, and none when the branch ends in the 500 response.
BufferedEntries(cs) ==
  LET loop == BufferedLoop(cs, <<>>, Empty)
  IN  IF loop.raised THEN <<>> ELSE loop.collected

\* C7: for a backend chunk sequence that ends without a fault, the fragment
\* texts delivered in live mode concatenate to the same text as the content
\* entries buffered mode returns, the two modes give the same number of
\* fragments, and their stream usage records carry the same output_tokens.
C7_CrossModeEquivalence ==
  (LiveMode /\ gen \in {"exhausted", "raised"} /\ backendFault = "")
    => LET live == DataFrames(frames)
           buffered == BufferedEntries(chunks)
       IN  /\ ConcatTexts(live) = ConcatTexts(buffered)
           /\ Len(live) = Len(buffered)
           /\ \A i \in 1..Len(records) :
                records[i].event_type = "bedrock_stream" =>
                  records[i].output_tokens =
                    estimate_tokens(ConcatTexts(buffered), model_id)

\* The text a chunk contributes according to the extraction rule: the text
\* extracted, and nothing for a chunk of unrecognized shape.
RuleText(chunk) ==
  LET r == ExtractLive(chunk) IN IF r.raised THEN Empty ELSE r.text

RECURSIVE RuleFrames(_)
RuleFrames(cs) ==
  IF cs = <<>> THEN <<>>
  ELSE (IF RuleText(Head(cs)) # Empty THEN <<DataFrame(RuleText(Head(cs)))>>
        ELSE <<>>) \o RuleFrames(Tail(cs))

\* C8: in a live stream whose backend sequence ends normally, the frames
\* after the head are one fragment frame per chunk with non-empty text, in
\* arrival order, then exactly one END frame and nothing after it, and one
\* stream usage record is emitted with the output tokens of the
\* concatenation of the forwarded fragments.
C8_LiveFramesAndRecord ==
  (LiveMode /\ gen \in {"exhausted", "raised"} /\ backendFault = "")
    => /\ frames = <<HeadFrame>> \o RuleFrames(chunks) \o <<EndFrame>>
       /\ records = << UsageRecord("bedrock_stream", customer_id, model_id,
                         input_tokens,
                         estimate_tokens(ConcatTexts(DataFrames(frames)), model_id)) >>

\* C9: when the backend faults in live mode, the sequence ends with a
\* failure signal, not with an exception leaving the generator, and one
\* error usage record with the customer_id and model_id is emitted.
C9_LiveFaultSignalled ==
  (LiveMode /\ backendFault # "")
    => /\ gen # "raised"
       /\ records = << ErrorRecord(customer_id, model_id, backendFault) >>

\* C10: when the backend faults on the synchronous path or during buffered
\* streaming, the handler returns one 500 response whose body is the error
\* with the backend's message and no fragment, and the error usage record of
\* the call carries that message.
C10_BackendFaultIs500 ==
  (~LiveMode /\ backendFault # "")
    => /\ pc = "Returned"
       /\ response = ErrorResponse(500, backendFault)
       /\ records = << ErrorRecord(customer_id, model_id, backendFault) >>

\* C10's case: the backend faulted in buffered mode after chunks whose
\* fragments had been collected.
C10_Witness ==
  /\ ~LiveMode
  /\ backendFault # ""
  /\ event.apiGateway
  /\ use_streaming
  /\ BufferedEntries(chunks) # <<>>
  /\ response.status = 500

\* The END frame has been yielded.
EndDelivered == \E i \in 1..Len(frames) : frames[i].type = "end"

\* The buffered branch was taken and its backend call made.
BufferedMode ==
  /\ use_streaming
  /\ event.apiGateway
  /\ backendCalls # <<>>

\* C11: in both streaming modes a chunk of unrecognized shape contributes
\* no text and no fragment, raises nothing and does not abort the stream:
\* the generator raises only when the backend faults, and a buffered stream
\* the backend ends normally is answered 200 with the entries of all its
\* chunks, the later ones included.
C11_MalformedChunkTolerated ==
  /\ (LiveMode /\ gen = "raised") => backendFault # ""
  /\ (BufferedMode /\ pc = "Returned" /\ backendFault = "")
       => /\ response.status = 200
          /\ response.items = Append(RuleFrames(chunks), DoneEntry)

\* C13: no exception leaves the gateway: the handler never raises, a
\* response it returns has a status in {200, 400, 401, 500}, and the
\* live-mode generator never raises into its consumer.
C13_NoExceptionEscapes ==
  /\ pc # "Escaped"
  /\ gen # "raised"
  /\ (pc = "Returned" /\ response.kind = "json")
       => response.status \in {200, 400, 401, 500}

\* C14: when the consumer stops iterating a live stream before the END
\* frame, a usage record is still emitted for the call.
C14_DisconnectStillRecorded ==
  (gen = "closed" /\ ~EndDelivered) => records # <<>>

\* C15: an OPTIONS call is answered with the fixed 200 preflight response
\* whatever its headers and body are, and it looks nothing up in the store,
\* calls no backend, emits no usage record and writes no warning.
C15_PreflightTouchesNothing ==
  (event.httpMethod = "OPTIONS" /\ pc # "Received")
    => /\ pc = "Returned"
       /\ response.kind = "json"
       /\ response.status = 200
       /\ response.headers = headers
       /\ response.message = "CORS preflight response"
       /\ response.error = ""
       /\ storeReads = <<>>
       /\ backendCalls = <<>>
       /\ records = <<>>
       /\ warnings = <<>>
       /\ customer_id = ""
       /\ gen = "none"

\* An OPTIONS call with headers: null, no credential and a body that is
\* not JSON has been answered.
C15_Witness ==
  /\ event.httpMethod = "OPTIONS"
  /\ event.headers.kind = "null"
  /\ event.body.kind = "text"
  /\ pc = "Returned"
  /\ response.status = 200

\* C17: when the store lookup raises, the call is answered 500 with only
\* the generic message 'Error authenticating request' (the lookup error's
\* own text stays in the operator's log), no backend call is made and no
\* usage record is emitted.
C17_StoreFaultIsGeneric500 ==
  StoreFaulted
    => /\ pc = "Returned"
       /\ response.kind = "json"
       /\ response.status = 500
       /\ response.error = "Error authenticating request"
       /\ response.error \notin StoreFaults
       /\ response.obj = NoObj
       /\ response.items = <<>>
       /\ backendCalls = <<>>
       /\ records = <<>>
       /\ customer_id = ""
       /\ gen = "none"

\* A lookup has raised for a well-formed bearer header and the call has
\* been answered.
C17_Witness ==
  /\ HasBearer
  /\ StoreFaulted
  /\ storeReads # <<>>
  /\ pc = "Returned"

\* The chunk has one of the shapes the extraction rule names: a completion
\* string, or else a content string or a content list of part objects whose
\* 'text', where the type is 'text', is a string, or neither field.
ShapeRecognized(chunk) ==
  IF chunk.hasCompletion THEN chunk.completion.kind = "str"
  ELSE IF chunk.hasContent
    THEN \/ chunk.content.kind = "str"
         \/ /\ chunk.content.kind = "list"
            /\ \A i \in 1..Len(chunk.content.parts) :
                 /\ chunk.content.parts[i].ptype # "string"
                 /\ chunk.content.parts[i].ptype = "text"
                      => chunk.content.parts[i].tkind = "str"
  ELSE TRUE

\* The text values of the parts of type 'text', concatenated in order.
RECURSIVE PartTexts(_)
PartTexts(parts) ==
  IF parts = <<>> THEN Empty
  ELSE (IF Head(parts).ptype = "text" THEN Head(parts).text ELSE Empty)
       \o PartTexts(Tail(parts))

\* The text the extraction rule gives for a chunk of a recognized shape.
ChunkText(chunk) ==
  IF chunk.hasCompletion THEN chunk.completion.text
  ELSE IF ~chunk.hasContent THEN Empty
  ELSE IF chunk.content.kind = "str" THEN chunk.content.text
  ELSE PartTexts(chunk.content.parts)

\* One fragment per chunk of cs whose text is not empty.
RECURSIVE ChunkFrames(_)
ChunkFrames(cs) ==
  IF cs = <<>> THEN <<>>
  ELSE (IF ChunkText(Head(cs)) # Empty THEN <<DataFrame(ChunkText(Head(cs)))>>
        ELSE <<>>) \o ChunkFrames(Tail(cs))

AllRecognized(cs) == \A i \in 1..Len(cs) : ShapeRecognized(cs[i])

\* C18: the text extracted from a stream chunk is the completion string when
\* the chunk has a completion field, otherwise the content string, otherwise
\* the concatenation in order of the text of the content parts of type
\* 'text', and empty for a chunk with neither field, whatever the model id
\* is: in both streaming modes the fragments delivered for chunks of these
\* shapes, and the output text accumulated from them, are the ones this rule
\* gives.
C18_ExtractedText ==
  /\ (LiveMode /\ AllRecognized(chunks))
       => /\ DataFrames(frames) = ChunkFrames(chunks)
          /\ output_text = ConcatTexts(ChunkFrames(chunks))
  /\ (BufferedMode /\ pc = "Returned" /\ backendFault = "" /\ AllRecognized(chunks))
       => response.items = Append(ChunkFrames(chunks), DoneEntry)

\* A live stream for a Claude model has processed a chunk that carries both
\* fields and a chunk whose content is a list with text and non-text parts.
C18_Witness ==
  /\ LiveMode
  /\ model_id = <<"Claude", "v2">>
  /\ Len(chunks) = 2
  /\ chunks[1].hasCompletion /\ chunks[1].hasContent
  /\ chunks[2].content.kind = "list"
  /\ AllRecognized(chunks)
  /\ DataFrames(frames) = << DataFrame(<<"a", "b">>) >>

\* The event presents a credential the store accepts: a bearer header whose
\* token has a record with status active or deprecated.
CredentialValid ==
  /\ HasBearer
  /\ PresentedToken(event.headers.auth) \in DOMAIN store
  /\ store[PresentedToken(event.headers.auth)].status \in {"active", "deprecated"}

\* C20: the steps of one call happen in the order validation, normalization,
\* dispatch, telemetry: the backend is called at most once, and only for a
\* validated customer and a normalized payload; a call whose credential is
\* invalid is answered 401 with its body never examined, a malformed body
\* included; and a usage record exists only for a validated customer and,
\* when the backend was called, only once that call has returned or failed.
C20_StrictOrder ==
  /\ Len(backendCalls) <= 1
  /\ backendCalls # <<>>
       => /\ customer_id # ""
          /\ CredentialValid
          /\ BodyIsObject
          /\ model_id # <<>>
          /\ backendCalls[1].modelId = model_id
  /\ (event.httpMethod # "OPTIONS" /\ pc # "Received"
        /\ ~CredentialValid /\ ~StoreFaulted)
       => /\ pc = "Returned"
          /\ response.status = 401
          /\ request_body = RawBody("absent")
          /\ backendCalls = <<>>
          /\ records = <<>>
  /\ records # <<>>
       => /\ customer_id # ""
          /\ LiveMode => gen = "exhausted"

\* C12: a fault of the log sink while a usage record is written is
\* swallowed: no exception leaves the handler or the generator because of
\* it, and a synchronous call the backend served is still answered 200 with
\* the backend's body.
C12_SinkFaultSwallowed ==
  sink = "faulted"
    => /\ pc # "Escaped"
       /\ (LiveMode /\ gen = "raised")
            => (backendFault # "" \/ ~AllRecognized(chunks))
       /\ (pc = "Returned" /\ ~use_streaming /\ backendCalls # <<>>
             /\ backendFault = "")
            => /\ response.status = 200
               /\ response.message = "body"

\* The base count of a text: the maximal runs of word characters plus the
\* punctuation marks.
BaseCount(text) ==
  LET isWord(i)  == text[i] = "a"
      isPunct(i) == text[i] = "."
      runEnds    == {i \in 1..Len(text) :
                       isWord(i) /\ (i = Len(text) \/ ~isWord(i + 1))}
      marks      == {i \in 1..Len(text) : isPunct(i)}
  IN  Cardinality(runEnds) + Cardinality(marks)

\* num/den truncated toward zero, for num >= 0 and den > 0.
Truncated(num, den) ==
  CHOOSE q \in 0..num : q * den <= num /\ num < (q + 1) * den

\* The model id holds the family name in some letter case.
NamesFamily(model, spellings) ==
  \E i \in 1..Len(model) : model[i] \in spellings

\* C19: estimate_tokens returns 0 for the empty text and otherwise, with
\* base = word runs + punctuation characters, base * 0.9 truncated toward
\* zero for a model id containing 'claude' in any letter case (also when it
\* contains 'llama' as well), base * 1.1 truncated toward zero for one
\* containing 'llama', and base for every other model id; the result is
\* never negative.
C19_EstimateRule ==
  LET base   == BaseCount(estimate.text)
      claude == NamesFamily(estimate.model_id, {"claude", "Claude"})
      llama  == NamesFamily(estimate.model_id, {"llama", "LLAMA"})
  IN  /\ estimate.tokens \in Nat
      /\ estimate.text = Empty => estimate.tokens = 0
      /\ (estimate.text # Empty /\ claude)
           => estimate.tokens = Truncated(base * 9, 10)
      /\ (estimate.text # Empty /\ ~claude /\ llama)
           => estimate.tokens = Truncated(base * 11, 10)
      /\ (estimate.text # Empty /\ ~claude /\ ~llama)
           => estimate.tokens = base

\* A text of ten punctuation marks has been estimated for a model id that
\* names both families: 9 tokens, the 'claude' scaling of base 10.
C19_Witness ==
  /\ estimate.model_id = <<"llama", "Claude">>
  /\ Len(estimate.text) = 10
  /\ BaseCount(estimate.text) = 10
  /\ estimate.tokens = 9

\* A text of base 10 has been estimated for a 'llama' model: 11 tokens.
C19_WitnessLlama ==
  /\ estimate.model_id = <<"LLAMA">>
  /\ BaseCount(estimate.text) = 10
  /\ estimate.tokens = 11

-----------------------------------------------------------------------------
\* Two calls of the handler, one after the other, that differ in the token

\* The first call presents this customer's active token; its body is no
\* JSON, or an object without modelId, or one for a model with or without
\* messages, on any of the three paths.
InitTwin ==
  /\ Init
  /\ event.httpMethod \in {"POST", "OPTIONS"}
  /\ event.headers.kind = "map"
  /\ event.headers.hasAuth
  /\ event.headers.auth = <<"Bearer ", "T">>
  /\ event.body.kind \in {"text", "object"}
  /\ event.body.keys \in { <<>>, <<"modelId", "stream">>,
                           <<"max_tokens", "stream", "messages", "modelId">> }
  /\ event.body.modelId \in { <<>>, <<"Claude", "v2">> }
  /\ event.body.messages.iterable
  /\ event.body.messages.msgs \in { <<>>, << StrVal(<<"a", " ", "a", ".">>),
                                             ListVal(<< TextPart(<<"b">>), ImagePart >>) >> }

\* s is an initial part of t.
IsPrefix(s, t) ==
  /\ Len(s) <= Len(t)
  /\ \A i \in 1..Len(s) : s[i] = t[i]

\* The second call meets the collaborators the first call met: the store
\* faults if it did then, and the backend sends the same chunks and faults
\* the same way, as far as the call has come; the consumer closes the
\* stream only if it did then.
Follows ==
  first.taken
    => /\ pc # "Received" => (StoreFaulted <=> first.storeFaulted)
       /\ IsPrefix(chunks, first.chunks)
       /\ backendFault \in {"", first.backendFault}
       /\ gen = "closed" => first.gen = "closed"

\* Line 28: lambda_handler is called again, for the event of the finished
\* first call with the customer's deprecated token in place of the active
\* one; what the first call gave is kept for comparison.
SecondCall ==
  /\ ~first.taken
  /\ Terminal
  /\ HasBearer
  /\ LET token == PresentedToken(event.headers.auth)
     IN  /\ token \in DOMAIN store
         /\ store[token].status = "active"
         /\ \E other \in DOMAIN store :
              /\ store[other].status = "deprecated"
              /\ store[other].customer_id = store[token].customer_id
              /\ event' = [event EXCEPT !.headers.auth = <<"Bearer ">> \o other]
  /\ first' = [taken |-> TRUE, pc |-> pc, response |-> response,
               records |-> records, frames |-> frames,
               backendCalls |-> backendCalls, warnings |-> warnings,
               chunks |-> chunks, backendFault |-> backendFault, gen |-> gen,
               storeFaulted |-> StoreFaulted]
  /\ pc' = "Received"
  /\ customer_id' = ""
  /\ model_id' = <<>>
  /\ use_streaming' = FALSE
  /\ input_tokens' = 0
  /\ request_body' = RawBody("absent")
  /\ response' = NoResponse
  /\ records' = <<>>
  /\ warnings' = <<>>
  /\ storeReads' = <<>>
  /\ backendCalls' = <<>>
  /\ backendFault' = ""
  /\ gen' = "none"
  /\ atYield' = FALSE
  /\ chunks' = <<>>
  /\ frames' = <<>>
  /\ output_text' = Empty
  /\ UNCHANGED << store, sink, estimate, manageVars >>

\* The steps of the second call; its backend stream is the first call's.
NextSecond ==
  \/ Preflight
  \/ CredentialCheck
  \/ Normalize
  \/ InvokeSync
  \/ StreamBufferedFrom({first.chunks})
  \/ ReturnGenerator
  \/ GenStart
  \/ GenOpen
  \/ GenChunk
  \/ GenBackendFault
  \/ GenEnd
  \/ GenFinish
  \/ Disconnect

NextTwin ==
  \/ ~first.taken /\ Next
  \/ first.taken /\ NextSecond /\ Follows'
  \/ SecondCall

SpecTwin == InitTwin /\ [][NextTwin]_vars

\* The second call has ended after the same behaviour of the store, the
\* backend and the consumer as the first.
SameBehaviour ==
  /\ first.taken
  /\ Terminal
  /\ StoreFaulted <=> first.storeFaulted
  /\ chunks = first.chunks
  /\ backendFault = first.backendFault
  /\ (gen = "closed") <=> (first.gen = "closed")
  /\ gen = "closed" => Len(frames) = Len(first.frames)

\* C16: two requests that differ only in presenting the active or the
\* deprecated token of one customer, met by the same behaviour of the
\* collaborators, get the same response (status, headers, body or frame
\* sequence) and the same usage record, after the same backend call; the
\* deprecated token only adds a warning line for the operator.
C16_DeprecatedSameAsActive ==
  SameBehaviour
    => /\ pc = first.pc
       /\ gen = first.gen
       /\ response = first.response
       /\ frames = first.frames
       /\ records = first.records
       /\ backendCalls = first.backendCalls
       /\ SelectSeq(warnings, LAMBDA w : w.text # "deprecated token")
            = first.warnings

\* The second call of a pair, made with the deprecated token, was served by
\* the backend on the synchronous path like the first: it has emitted its
\* usage record and the warning.
C16_Witness ==
  /\ SameBehaviour
  /\ event.headers.auth = <<"Bearer ", "D">>
  /\ response.status = 200
  /\ response.message = "body"
  /\ Len(records) = 1
  /\ \E i \in 1..Len(warnings) : warnings[i].text = "deprecated token"

\* The second call of a pair has streamed in live mode to the end.
C16_WitnessLive ==
  /\ SameBehaviour
  /\ LiveMode
  /\ gen = "exhausted"
  /\ Len(frames) >= 3

-----------------------------------------------------------------------------
\* C21: the token looked up in the store is exactly what follows the leading
\* 'Bearer ' of the Authorization header, for every header value that starts
\* with that prefix, values in which 'Bearer ' occurs again included.
C21_TokenIsSuffix ==
  (HasBearer /\ storeReads # <<>>)
    => storeReads = << PresentedToken(event.headers.auth) >>

\* The stream field of the body is the boolean true.
StreamIsTrue ==
  /\ Has(event.body.keys, "stream")
  /\ event.body.stream = "true"

\* C22: the streaming path is taken only when the payload's stream field is
\* true; when the field is absent or holds a value that is no boolean, the
\* flag is false and the synchronous path is taken: the one backend call is
\* invoke_model and a usage record emitted is an invoke record.
C22_StreamOnlyWhenTrue ==
  /\ pc = "Normalized" => (use_streaming <=> StreamIsTrue)
  /\ (backendCalls # <<>> /\ ~StreamIsTrue)
       => /\ backendCalls[1].op = "invoke_model"
          /\ ~LiveMode
          /\ \A i \in 1..Len(records) :
               records[i].event_type \in {"bedrock_invoke", "bedrock_error"}

-----------------------------------------------------------------------------
\* CustomerManager (customer-management.py): create_customer and
\* rotate_token, run by two processes on the two tables, one table request
\* per step

\* uuid4 values, and the tokens: what a caller may pass and
\* generate_token may draw.
CustomerIds == {"c1", "c2"}
Tokens == { <<"T">>, <<"D">>, <<"R">>, <<"N">> }

EmptyTable == [k \in {} |-> IdleFrame]

\* put_item: the item replaces whatever the key held.
PutItem(table, key, item) ==
  [k \in DOMAIN table \cup {key} |-> IF k = key THEN item ELSE table[k]]

\* The tokens that occur in a table or in the frame of a process.
TokensInUse ==
  DOMAIN store
    \cup {customers[c].current_token : c \in DOMAIN customers}
    \cup {ops[p].token : p \in Procs}

\* The customer ids that occur in a table or in the frame of a process.
CustomerIdsInUse ==
  DOMAIN customers \cup {ops[p].customer_id : p \in Procs}

callVars ==
  << event, pc, handlerVars, response, records, warnings, storeReads,
     backendCalls, backendFault, genVars, sink, estimate, first >>

\* Both tables exist and are empty, and no handler call is under way.
InitManage ==
  /\ event = IdleEvent
  /\ store = EmptyTable
  /\ pc = "Received"
  /\ customer_id = ""
  /\ model_id = <<>>
  /\ use_streaming = FALSE
  /\ input_tokens = 0
  /\ request_body = RawBody("absent")
  /\ response = NoResponse
  /\ records = <<>>
  /\ warnings = <<>>
  /\ storeReads = <<>>
  /\ backendCalls = <<>>
  /\ backendFault = ""
  /\ gen = "none"
  /\ atYield = FALSE
  /\ chunks = <<>>
  /\ frames = <<>>
  /\ output_text = Empty
  /\ sink = "ok"
  /\ estimate = NoEstimate
  /\ first = NoFirst
  /\ customers = EmptyTable
  /\ ops = [p \in Procs |-> IdleFrame]
  /\ opsBegun = 0
  /\ issued = EmptyTable

\* The process can begin an operation.
Free(p) ==
  /\ ops[p].pc \in {"idle", "done"}
  /\ opsBegun < MaxOps

\* Lines 59-66: create_customer is called, with a token of the caller's or
\* without one; the customer id is a fresh uuid4 and a generated token is a
\* fresh random value.
BeginCreate(p) ==
  /\ Free(p)
  /\ \E c \in CustomerIds \ CustomerIdsInUse, t \in Tokens, supplied \in BOOLEAN :
       /\ ~supplied => t \notin TokensInUse
       /\ ops' = [ops EXCEPT ![p] =
            [op |-> "create", pc |-> "put_customer", customer_id |-> c,
             token |-> t, current_token |-> <<>>, found |-> FALSE]]
  /\ opsBegun' = opsBegun + 1
  /\ UNCHANGED << callVars, store, customers, issued >>

\* Lines 69-80: the customer record is written.
CreatePutCustomer(p) ==
  /\ ops[p].op = "create"
  /\ ops[p].pc = "put_customer"
  /\ customers' = PutItem(customers, ops[p].customer_id,
       [current_token |-> ops[p].token, previous_token |-> <<>>])
  /\ ops' = [ops EXCEPT ![p].pc = "put_token"]
  /\ UNCHANGED << callVars, store, opsBegun, issued >>

\* The first customer a token record was written for.
Issue(token, c) ==
  IF token \in DOMAIN issued THEN issued ELSE PutItem(issued, token, c)

\* Lines 83-100: the token record is written, and the operation returns.
CreatePutToken(p) ==
  /\ ops[p].op = "create"
  /\ ops[p].pc = "put_token"
  /\ store' = PutItem(store, ops[p].token,
       [customer_id |-> ops[p].customer_id, status |-> "active"])
  /\ issued' = Issue(ops[p].token, ops[p].customer_id)
  /\ ops' = [ops EXCEPT ![p].pc = "done"]
  /\ UNCHANGED << callVars, customers, opsBegun >>

\* Line 114: rotate_token is called for some customer id.
BeginRotate(p) ==
  /\ Free(p)
  /\ \E c \in CustomerIds :
       ops' = [ops EXCEPT ![p] =
         [op |-> "rotate", pc |-> "get_customer", customer_id |-> c,
          token |-> <<>>, current_token |-> <<>>, found |-> FALSE]]
  /\ opsBegun' = opsBegun + 1
  /\ UNCHANGED << callVars, store, customers, issued >>

\* Lines 117-128: the customer record is read; without one the operation
\* returns None, with one its current_token is kept and the new token is
\* generated.
RotateGetCustomer(p) ==
  /\ ops[p].op = "rotate"
  /\ ops[p].pc = "get_customer"
  /\ IF ops[p].customer_id \notin DOMAIN customers
       THEN ops' = [ops EXCEPT ![p].pc = "done"]
       ELSE \E t \in Tokens \ TokensInUse :
              ops' = [ops EXCEPT
                ![p].pc = "update_customer",
                ![p].found = TRUE,
                ![p].current_token = customers[ops[p].customer_id].current_token,
                ![p].token = t]
  /\ UNCHANGED << callVars, store, customers, opsBegun, issued >>

\* Lines 131-138: current_token and previous_token of the customer record
\* are set.
RotateUpdateCustomer(p) ==
  /\ ops[p].op = "rotate"
  /\ ops[p].pc = "update_customer"
  /\ customers' = PutItem(customers, ops[p].customer_id,
       [current_token |-> ops[p].token,
        previous_token |-> ops[p].current_token])
  /\ ops' = [ops EXCEPT ![p].pc = "put_token"]
  /\ UNCHANGED << callVars, store, opsBegun, issued >>

\* Lines 140-149: the record of the new token is written.
RotatePutToken(p) ==
  /\ ops[p].op = "rotate"
  /\ ops[p].pc = "put_token"
  /\ store' = PutItem(store, ops[p].token,
       [customer_id |-> ops[p].customer_id, status |-> "active"])
  /\ issued' = Issue(ops[p].token, ops[p].customer_id)
  /\ ops' = [ops EXCEPT ![p].pc = "update_old"]
  /\ UNCHANGED << callVars, customers, opsBegun >>

\* update_item ... SET status = 'deprecated': the one attribute is set, in
\* a record that is created with the key alone when there is none.
Deprecate(table, key) ==
  IF key \in DOMAIN table
    THEN [table EXCEPT ![key].status = "deprecated"]
    ELSE PutItem(table, key, [customer_id |-> "", status |-> "deprecated"])

\* Lines 151-168: the old token is marked deprecated, and the operation
\* returns.
RotateUpdateOld(p) ==
  /\ ops[p].op = "rotate"
  /\ ops[p].pc = "update_old"
  /\ store' = IF ops[p].current_token # <<>>
                THEN Deprecate(store, ops[p].current_token)
                ELSE store
  /\ ops' = [ops EXCEPT ![p].pc = "done"]
  /\ UNCHANGED << callVars, customers, opsBegun, issued >>

NextManage ==
  \E p \in Procs :
    \/ BeginCreate(p)
    \/ CreatePutCustomer(p)
    \/ CreatePutToken(p)
    \/ BeginRotate(p)
    \/ RotateGetCustomer(p)
    \/ RotateUpdateCustomer(p)
    \/ RotatePutToken(p)
    \/ RotateUpdateOld(p)

SpecManage == InitManage /\ [][NextManage]_vars

\* C24: after any sequence of create_customer and rotate_token operations,
\* every record of the token store maps its token to the customer the token
\* was first issued to.
C24_TokenKeepsCustomer ==
  \A t \in DOMAIN store :
    t \in DOMAIN issued => store[t].customer_id = issued[t]

\* The gateway's credential check (lines 70-81) accepts the token and
\* resolves it to customer c.
GatewayAccepts(table, token, c) ==
  /\ token \in DOMAIN table
  /\ table[token].status \in AcceptedStatuses
  /\ table[token].customer_id = c

\* C23: when rotate_token completes for an existing customer c whose current
\* token was t_old, the token store maps the new token to c with status
\* active and t_old to c with status deprecated, the customer record has
\* current_token = new token and previous_token = t_old, and the gateway's
\* credential check accepts both tokens and resolves both to c.
C23_RotationInstallsToken ==
  [][ \A p \in Procs :
        (ops[p].op = "rotate" /\ ops[p].pc = "update_old" /\ ops'[p].pc = "done")
          => LET c     == ops[p].customer_id
                 new   == ops[p].token
                 t_old == ops[p].current_token
             IN  /\ new \in DOMAIN store'
                 /\ store'[new] = [customer_id |-> c, status |-> "active"]
                 /\ t_old \in DOMAIN store'
                 /\ store'[t_old] = [customer_id |-> c, status |-> "deprecated"]
                 /\ c \in DOMAIN customers'
                 /\ customers'[c].current_token = new
                 /\ customers'[c].previous_token = t_old
                 /\ GatewayAccepts(store', new, c)
                 /\ GatewayAccepts(store', t_old, c) ]_vars

\* Both processes have completed a rotate_token for the same existing
\* customer.
BothRotated ==
  /\ \A p \in Procs : ops[p].op = "rotate" /\ ops[p].pc = "done" /\ ops[p].found
  /\ ops["p1"].customer_id = ops["p2"].customer_id

\* C25: once two rotate_token calls for the same customer, run by two
\* processes in any interleaving, have both completed, the customer has
\* exactly one token with status active in the token store, it is the
\* customer's current_token, and every other token of the customer is
\* deprecated.
C25_OneActiveToken ==
  BothRotated
    => LET c      == ops["p1"].customer_id
           own    == {t \in DOMAIN store : store[t].customer_id = c}
           active == {t \in own : store[t].status = "active"}
       IN  /\ active = {customers[c].current_token}
           /\ \A t \in own \ active : store[t].status = "deprecated"

====
